---- MODULE Spec2Model ----
(***************************************************************************)
(* caphVSink.py: a virtual sink that captures every source of a           *)
(* PulseAudio server.  MyPulse (the Router/Indexer over the server's      *)
(* module list), PulseEventsListener (the change listener thread) and     *)
(* Capturer (the reconciliation loop) are modelled over an explicit model *)
(* of the server's graph: its module list, its sources and its source     *)
(* outputs (the streams reading from a source).                           *)
(*                                                                         *)
(* Two specifications:                                                     *)
(*   Spec        one Capturer('caphVSink') run, one step per server call, *)
(*               interleaved with the listener thread and with external   *)
(*               changes of the graph;                                    *)
(*   RouterSpec  a single owner calling the MyPulse methods one after the *)
(*               other (each call atomic), with external changes between  *)
(*               calls.                                                   *)
(***************************************************************************)
EXTENDS Integers, Sequences, FiniteSets, TLC

\* ------------------------------------------------------------- bounds

\* external changes of the graph (sources, streams) in one behaviour
MaxEnv == 2
\* events held in the connection / in the deque; further ones coalesce
MaxPending == 1
\* MyPulse calls in one behaviour of RouterSpec
MaxCalls == 2

\* ------------------------------------------------------------- names

\* Capturer.__init__'s default sink name
name == "caphVSink"
\* another null sink, not owned by the Capturer
other == "Y"
\* the level meter of pavucontrol
PeakDetect == "Peak detect"
\* dict.get's default
None == "None"
\* vsink_source's not-found value
NotFound == -1
\* The outcome of a call: the graph after it, whether it raised
\* (pulsectl.PulseError, uncaught by MyPulse) and what it returned.
Return(g, v) == [g |-> g, raised |-> FALSE, ret |-> v]
Raise(g) == [g |-> g, raised |-> TRUE, ret |-> None]

monitor(n) == n \o ".monitor"

\* The sources the server may hold; a source's index is its position here.
HwSources == {"s1", "s2"}
SourceNames == <<"s1", "s2", monitor(name), monitor(other), "V">>
SinkNames == {name, other}
AppNames == {"Recorder", PeakDetect}
\* the sources the applications of the model read from
StreamSources == {monitor(name), "s1"}

index_of(s) == CHOOSE i \in DOMAIN SourceNames : SourceNames[i] = s

Min(a, b) == IF a < b THEN a ELSE b

\* ------------------------------------------------------------- module arguments
\* A module's argument string is a sequence of atoms: " " and "=" are the
\* separator characters, every other atom is a run of other characters.

SP == " "
EQ == "="

RECURSIVE join(_)
join(w) ==
    IF w = <<>> THEN "" ELSE IF Len(w) = 1 THEN w[1] ELSE Head(w) \o join(Tail(w))

RECURSIVE words(_, _)
\* split the atoms at the spaces: cur is the word being read
words(atoms, cur) ==
    IF atoms = <<>> THEN <<cur>>
    ELSE IF Head(atoms) = SP THEN <<cur>> \o words(Tail(atoms), <<>>)
    ELSE words(Tail(atoms), Append(cur, Head(atoms)))

first_eq(w) == CHOOSE i \in DOMAIN w : w[i] = EQ /\ \A j \in 1..(i-1) : w[j] # EQ

\* re.findall(r'([^ ]*?)=([^ ]*)', argument): one (key, value) per word that
\* holds an "=": the key is what precedes the first "=", the value the rest.
findall(argument) ==
    LET ws == SelectSeq(words(argument, <<>>), LAMBDA w : \E i \in DOMAIN w : w[i] = EQ)
    IN  [i \in DOMAIN ws |->
            LET e == first_eq(ws[i])
            IN  <<join(SubSeq(ws[i], 1, e - 1)), join(SubSeq(ws[i], e + 1, Len(ws[i])))>>]

\* dict(pairs): the last pair of a key wins
dict(found) ==
    [k \in {found[i][1] : i \in DOMAIN found} |->
        found[CHOOSE i \in DOMAIN found :
                /\ found[i][1] = k
                /\ \A j \in DOMAIN found : found[j][1] = k => j <= i][2]]

get(d, k) == IF k \in DOMAIN d THEN d[k] ELSE None

\* _vsink_add's and _loopback_add's f-strings
vsink_args(n) ==
    <<"sink_name", EQ, n, SP, "sink_properties", EQ, "device.description", EQ, n>>
loopback_args(source, sink) == <<"source", EQ, source, SP, "sink", EQ, sink>>

\* ------------------------------------------------------------- the server
\* g = [modules, sources, source_outputs, next_index]
\*   modules         the module list, in load order: [index, name, argument]
\*   sources         the names of the sources present
\*   source_outputs  the streams reading from a source: [name, source]
\*   next_index      the index the next module gets

Module(i, kind, argument) == [index |-> i, name |-> kind, argument |-> argument]

has_sink(g, n) == monitor(n) \in g.sources

\* the sources a module brings: a null sink its monitor, a null source itself
created_sources(kind, a) ==
    IF kind = "module-null-sink" THEN {monitor(get(a, "sink_name"))}
    ELSE IF kind = "module-null-source" THEN {get(a, "source_name")}
    ELSE {}

\* pulsectl's module_load: the server loads the module or rejects it.  A null
\* sink brings its monitor source; a loopback needs its source and its sink.
module_load(g, kind, argument) ==
    LET a == dict(findall(argument))
        ok == kind = "module-loopback" =>
                  get(a, "source") \in g.sources /\ has_sink(g, get(a, "sink"))
    IN  IF ~ok THEN Raise(g)
        ELSE Return([g EXCEPT
                        !.modules = Append(@, Module(g.next_index, kind, argument)),
                        !.next_index = @ + 1,
                        !.sources = @ \cup created_sources(kind, a)],
                    g.next_index)

\* what is left of the graph once the sources ss are gone: their streams end
without_sources(g, ss) ==
    [g EXCEPT !.sources = @ \ ss,
              !.source_outputs = {c \in @ : \A s \in ss : c.source # index_of(s)}]

\* pulsectl's module_unload: rejected when no module has the index.  A module
\* takes the sources it brought with it.
module_unload(g, i) ==
    LET hit == SelectSeq(g.modules, LAMBDA m : m.index = i)
        rest == [g EXCEPT !.modules = SelectSeq(@, LAMBDA m : m.index # i)]
    IN  IF hit = <<>> THEN Raise(g)
        ELSE Return(without_sources(rest,
                        created_sources(hit[1].name, dict(findall(hit[1].argument)))),
                    None)

\* source_list(): the sources present, by index
source_list(g) ==
    SelectSeq([i \in DOMAIN SourceNames |-> [name |-> SourceNames[i], index |-> i]],
              LAMBDA s : s.name \in g.sources)

\* ------------------------------------------------------------- MyPulse

\* module_items(name): (parsed_args_dict, module) of the modules of a kind
module_items(g, kind) ==
    LET sel == SelectSeq(g.modules, LAMBDA m : m.name = kind)
    IN  [i \in DOMAIN sel |-> [e |-> dict(findall(sel[i].argument)), mod |-> sel[i]]]

\* a dict comprehension {key: mod for ...} over (key, mod) pairs: the last
\* pair of a key wins
index_by(kv) ==
    [k \in {kv[i].key : i \in DOMAIN kv} |->
        kv[CHOOSE i \in DOMAIN kv :
                /\ kv[i].key = k
                /\ \A j \in DOMAIN kv : kv[j].key = k => j <= i].mod]

\* the (key, mod) pairs the three comprehensions run over
sink_names(g) ==
    LET items == module_items(g, "module-null-sink")
    IN  [i \in DOMAIN items |-> [key |-> get(items[i].e, "sink_name"), mod |-> items[i].mod]]
pairs(g) ==
    LET items == module_items(g, "module-loopback")
    IN  [i \in DOMAIN items |->
            [key |-> <<get(items[i].e, "source"), get(items[i].e, "sink")>>,
             mod |-> items[i].mod]]
source_names(g) ==
    LET items == module_items(g, "module-null-source")
    IN  [i \in DOMAIN items |-> [key |-> get(items[i].e, "source_name"), mod |-> items[i].mod]]

vsink_dict(g) == index_by(sink_names(g))
loopback_dict(g) == index_by(pairs(g))
vsource_dict(g) == index_by(source_names(g))

_vsink_add(g, n) == module_load(g, "module-null-sink", vsink_args(n))

\* faulty variant: the sink is loaded without looking for an existing one
vsink_add_unchecked(g, n) == _vsink_add(g, n)

vsink_add(g, n) ==
    LET d == vsink_dict(g)
    IN  IF n \in DOMAIN d THEN Return(g, d[n].index) ELSE _vsink_add(g, n)

_loopback_add(g, source, sink) ==
    module_load(g, "module-loopback", loopback_args(source, sink))

\* faulty variant: the loopback is loaded without looking for an existing one
loopback_add_unchecked(g, source, sink) == _loopback_add(g, source, sink)

loopback_add(g, source, sink) ==
    LET d == loopback_dict(g)
    IN  IF <<source, sink>> \in DOMAIN d
        THEN Return(g, d[<<source, sink>>].index)
        ELSE _loopback_add(g, source, sink)

\* the items of a dict in insertion order: a key keeps the place of its first
\* pair and has the module of its last
dict_items(kv) ==
    LET d == index_by(kv)
        firsts == SelectSeq([i \in DOMAIN kv |-> i],
                      LAMBDA i : \A j \in 1..(i-1) : kv[j].key # kv[i].key)
    IN  [n \in DOMAIN firsts |-> [key |-> kv[firsts[n]].key, mod |-> d[kv[firsts[n]].key]]]

\* faulty variant: the routes are unloaded whatever their sink
vsink_disconnect_list_all(g, sink) ==
    LET its == dict_items(pairs(g))
    IN  [i \in DOMAIN its |-> its[i].mod.index]

\* vsink_disconnect's loop: the indices it unloads, in order
vsink_disconnect_list(g, sink) ==
    LET its == SelectSeq(dict_items(pairs(g)),
                         LAMBDA it : it.key[2] = sink)
    IN  [i \in DOMAIN its |-> its[i].mod.index]

\* vsink_remove's loop over the null sinks: the indices it unloads, in order
vsink_remove_list(g, n) ==
    LET its == SelectSeq(module_items(g, "module-null-sink"),
                         LAMBDA it : get(it.e, "sink_name") = n)
    IN  [i \in DOMAIN its |-> its[i].mod.index]

\* loopback_remove's loop
loopback_remove_list(g, source, sink) ==
    LET its == SelectSeq(dict_items(pairs(g)),
                         LAMBDA it : it.key = <<source, sink>>)
    IN  [i \in DOMAIN its |-> its[i].mod.index]

RECURSIVE unload_all(_, _)
\* module_unload of each index in turn; the first rejection raises
unload_all(g, idxs) ==
    IF idxs = <<>> THEN Return(g, None)
    ELSE LET r == module_unload(g, Head(idxs))
         IN  IF r.raised THEN r ELSE unload_all(r.g, Tail(idxs))

vsink_disconnect(g, sink) == unload_all(g, vsink_disconnect_list(g, sink))

vsink_remove(g, n) ==
    LET r == vsink_disconnect(g, n)
    IN  IF r.raised THEN r ELSE unload_all(r.g, vsink_remove_list(r.g, n))

loopback_remove(g, source, sink) == unload_all(g, loopback_remove_list(g, source, sink))

\* vsink_sources(name): the keys of the dict it returns
vsink_sources(g, n) ==
    {k[1] : k \in {p \in DOMAIN loopback_dict(g) : p[2] = n}}

vsink_source(g, n) ==
    LET hit == SelectSeq(source_list(g), LAMBDA s : s.name = monitor(n))
    IN  IF hit = <<>> THEN NotFound ELSE hit[1].index

\* faulty variant: the level meter counts as an app
is_pavucontrol_never(c) == FALSE

is_pavucontrol(c) == c.name = PeakDetect

\* vsink_apps(name): the keys of the dict it returns
vsink_apps(g, n) ==
    LET idx == vsink_source(g, n)
        apps == {c \in g.source_outputs : c.source = idx}
    IN  {c.name : c \in {c \in apps : ~is_pavucontrol(c)}}

\* faulty variant: the sink is removed whatever the apps
vsink_safe_remove_forced(g, n) ==
    LET apps == vsink_apps(g, n)
        r == vsink_remove(g, n)
    IN  IF r.raised THEN r ELSE Return(r.g, apps)

vsink_safe_remove(g, n) ==
    LET apps == vsink_apps(g, n)
    IN  IF apps = {}
        THEN LET r == vsink_remove(g, n)
             IN  IF r.raised THEN r ELSE Return(r.g, apps)
        ELSE Return(g, apps)

\* ------------------------------------------------------------- Capturer, pure parts

RECURSIVE connect_all_unfiltered(_, _, _)
\* faulty variant: the sink's own monitor is routed like any source
connect_all_unfiltered(g, list, n) ==
    IF list = <<>> THEN Return(g, None)
    ELSE LET r == loopback_add(g, Head(list).name, n)
         IN  IF r.raised THEN r ELSE connect_all_unfiltered(r.g, Tail(list), n)

RECURSIVE connect_all(_, _, _)
\* capturer_connect's loop over a source list read before it
connect_all(g, list, n) ==
    IF list = <<>> THEN Return(g, None)
    ELSE IF Head(list).name # monitor(n)
         THEN LET r == loopback_add(g, Head(list).name, n)
              IN  IF r.raised THEN r ELSE connect_all(r.g, Tail(list), n)
         ELSE connect_all(g, Tail(list), n)

\* faulty variant: the loop misses the first source of the list
capturer_connect_skips_first(g, n) ==
    connect_all(g, IF source_list(g) = <<>> THEN <<>> ELSE Tail(source_list(g)), n)

capturer_connect(g, n) == connect_all(g, source_list(g), n)

\* faulty variant: the sources are compared the wrong way round
capturer_deltaprint_swapped(new_srcs, new_apps, old_srcs, old_apps) ==
    [connected_srcs    |-> old_srcs \ new_srcs,
     disconnected_srcs |-> new_srcs \ old_srcs,
     connected_apps    |-> new_apps \ old_apps,
     disconnected_apps |-> old_apps \ new_apps]

\* capturer_deltaprint: the four groups of lines it prints
capturer_deltaprint(new_srcs, new_apps, old_srcs, old_apps) ==
    [connected_srcs    |-> new_srcs \ old_srcs,
     disconnected_srcs |-> old_srcs \ new_srcs,
     connected_apps    |-> new_apps \ old_apps,
     disconnected_apps |-> old_apps \ new_apps]

NothingPrinted == capturer_deltaprint({}, {}, {}, {})

\* ------------------------------------------------------------- initial graphs

\* The graphs a run may start from.  hw: the hardware sources present.
Empty(hw) == [modules |-> <<>>, sources |-> hw, source_outputs |-> {}, next_index |-> 1]

\* another owner's null sink, with a route a user loaded by hand into it
Others(hw) ==
    LET g1 == module_load(Empty(hw), "module-null-sink", vsink_args(other)).g
    IN  module_load(g1, "module-loopback",
            <<"sink", EQ, other, SP, "source", EQ, "s1", SP, "latency_msec", EQ, "1">>).g

\* what a former run left alive: its sink, its routes and the stream that
\* kept it alive
Leftover(hw) ==
    LET g == capturer_connect(vsink_add(Others(hw), name).g, name).g
    IN  [g EXCEPT !.source_outputs = {[name |-> "Recorder", source |-> index_of(monitor(name))]}]

\* A null sink caphVSink was there with its routes, beside another owner's
\* sink and route and a null source V; the sink was then unloaded by hand and
\* the server moved the streams of the routes into it: the routes stay, still
\* recording it as their sink.
Orphaned(hw) ==
    LET g0 == module_load(Others(hw), "module-null-source", <<"source_name", EQ, "V">>).g
        g1 == capturer_connect(vsink_add(g0, name).g, name).g
    IN  module_unload(g1, vsink_dict(g1)[name].index).g

InitGraphs ==
    {Empty(hw) : hw \in SUBSET HwSources} \cup {Others({"s1"}), Leftover(HwSources)}

\* ------------------------------------------------------------- state

VARIABLES
    server,     \* the server's graph
    lpc,        \* the listener thread: "none", "starting", "listening", "done"
    events,     \* PulseEventsListener.events
    _stop,      \* PulseEventsListener._stop
    inflight,   \* events the server sent that the hook has not yet received
    pc,         \* the main thread's place in Capturer.__init__
    ctx,        \* the caller of capturer_connect: "start" (149), "baseline" (155), "tick" (160)
                \* ("none" once an exception has unwound the calls)
    todo,       \* capturer_connect: the sources its loop has yet to visit
    unloadq,    \* vsink_disconnect / vsink_remove: the modules the loop has yet to unload
    srcs,       \* self.srcs
    apps,       \* self.apps
    old_srcs,   \* capturer_refresh's local srcs
    old_apps,   \* capturer_refresh's local apps
    printed,    \* the lines of the last capturer_deltaprint
    ret,        \* the apps vsink_safe_remove returned (166)
    bye,        \* the closing line
    closed,     \* self.close() was called
    destroyed,  \* history: the modules this process unloaded
    loaded,     \* history: the modules this process loaded
    retained,   \* history: the snapshot the last finished capturer_refresh retained
    envLeft,    \* external changes left
    call,       \* RouterSpec: the last MyPulse call and its outcome
    signal      \* ctrl-C was pressed

vars == <<server, lpc, events, _stop, inflight, pc, ctx, todo, unloadq, srcs, apps,
          old_srcs, old_apps, printed, ret, bye, closed, destroyed, loaded, retained,
          envLeft, call, signal>>

listener_vars == <<lpc, events, _stop, inflight>>
refresh_vars == <<srcs, apps, old_srcs, old_apps, printed, retained>>
drain_vars == <<unloadq, ret, bye, destroyed>>

\* op(args) was the n-th call, made when env external changes were left; it
\* raised, or returned a module index (handle) or a set of app names (apps)
NoCall ==
    [op |-> "none", args |-> <<>>, raised |-> FALSE, handle |-> NotFound, apps |-> {},
     n |-> 0, env |-> 0]

Init ==
    /\ server \in InitGraphs
    /\ lpc = "none"
    /\ events = <<>>
    /\ _stop = FALSE
    /\ inflight = 0
    /\ pc = "init"
    /\ ctx = "start"
    /\ todo = <<>>
    /\ unloadq = <<>>
    /\ srcs = {}
    /\ apps = {}
    /\ old_srcs = {}
    /\ old_apps = {}
    /\ printed = NothingPrinted
    /\ ret = {}
    /\ bye = None
    /\ closed = FALSE
    /\ destroyed = {}
    /\ loaded = {}
    /\ retained = [srcs |-> {}, apps |-> {}]
    /\ envLeft = MaxEnv
    /\ call = NoCall
    /\ signal = FALSE

\* ------------------------------------------------------------- the server's events

\* The server sends one event for a change of its graph to every subscribed
\* client (event_mask_set('all')).
Notify(changed) ==
    inflight' = IF changed /\ lpc = "listening"
                THEN Min(inflight + 1, MaxPending) ELSE inflight

\* the server takes the graph g, on a command of the main thread
Command(g) ==
    /\ server' = g
    /\ Notify(g # server)
    /\ loaded' = loaded \cup ({m.index : m \in {g.modules[i] : i \in DOMAIN g.modules}}
                              \ {m.index : m \in {server.modules[i] : i \in DOMAIN server.modules}})

\* ------------------------------------------------------------- Capturer.__init__

Starting ==
    \/ pc \in {"init", "vsink_add", "listener"}
    \/ pc \in {"cc_list", "cc_add", "r_srcs", "r_apps"} /\ ctx \in {"start", "baseline"}

Running ==
    \/ pc \in {"loop", "clear", "sleep"}
    \/ pc \in {"cc_list", "cc_add", "r_srcs", "r_apps"} /\ ctx = "tick"

Draining == pc \in {"stop", "sr_apps", "dis_list", "dis_unload", "rm_list", "rm_unload", "report", "close"}

\* self.close() (175): the server drops the client and reports it gone to its
\* subscribers, as it reports any change (event_mask_set('all') covers it)
Disconnected(now) == Notify(now)

\* An exception leaves Capturer.__init__.  Before the try (156) nothing
\* handles it; in the try, the finally clause closes the connection and its
\* print(bye) raises in turn, bye being unset.
Propagate ==
    /\ pc' = "crashed"
    /\ closed' = ~Starting
    /\ Disconnected(~Starting)

\* The exception unwinds the frames of capturer_refresh, capturer_connect,
\* vsink_disconnect and vsink_remove: their locals are gone.
Unwind ==
    /\ ctx' = "none"
    /\ todo' = <<>>
    /\ unloadq' = <<>>
    /\ old_srcs' = {}
    /\ old_apps' = {}

\* 147: super().__init__() connects to the server
Connect ==
    /\ pc = "init"
    /\ pc' = "vsink_add"
    /\ UNCHANGED <<server, listener_vars, ctx, todo, refresh_vars, drain_vars, closed,
                   loaded, envLeft, call, signal>>

\* 147: the connection cannot be established
ConnectFails ==
    /\ pc = "init"
    /\ Propagate
    /\ Unwind
    /\ UNCHANGED <<server, lpc, events, _stop, srcs, apps, printed, retained, ret, bye,
                   destroyed, loaded, envLeft, call, signal>>

\* 148: self.vsink_add(name); 149: capturer_connect is entered
VsinkAdd ==
    /\ pc = "vsink_add"
    /\ Command(vsink_add(server, name).g)
    /\ pc' = "cc_list"
    /\ ctx' = "start"
    /\ UNCHANGED <<lpc, events, _stop, todo, refresh_vars, drain_vars, closed, envLeft,
                   call, signal>>

\* where capturer_connect returns to
AfterConnect == IF ctx = "start" THEN "listener" ELSE "r_srcs"

\* 198: for src in self.source_list()
ConnectList ==
    /\ pc = "cc_list"
    /\ todo' = source_list(server)
    /\ pc' = IF todo' = <<>> THEN AfterConnect ELSE "cc_add"
    /\ UNCHANGED <<server, listener_vars, ctx, refresh_vars, drain_vars, closed,
                   loaded, envLeft, call, signal>>

\* 199-200: one turn of capturer_connect's loop
ConnectAdd ==
    /\ pc = "cc_add"
    /\ LET r == connect_all(server, <<Head(todo)>>, name)
       IN  IF r.raised
           THEN /\ Propagate
                /\ Unwind
                /\ UNCHANGED <<server, loaded>>
           ELSE /\ Command(r.g)
                /\ todo' = Tail(todo)
                /\ pc' = IF todo' = <<>> THEN AfterConnect ELSE "cc_add"
                /\ UNCHANGED <<closed, ctx, unloadq, old_srcs, old_apps>>
    /\ UNCHANGED <<lpc, events, _stop, srcs, apps, printed, retained, ret, bye, destroyed,
                   envLeft, call, signal>>

\* 150-155: the snapshot is emptied, the listener is created (its thread
\* starts) and capturer_refresh is entered (179-181)
StartListener ==
    /\ pc = "listener"
    /\ srcs' = {}
    /\ apps' = {}
    /\ lpc' = "starting"
    /\ old_srcs' = srcs'
    /\ old_apps' = apps'
    /\ ctx' = "baseline"
    /\ pc' = "cc_list"
    /\ UNCHANGED <<server, events, _stop, inflight, todo, printed, retained, drain_vars,
                   closed, loaded, envLeft, call, signal>>

\* 182: self.srcs = set(self.vsink_sources(name))
RefreshSources ==
    /\ pc = "r_srcs"
    /\ srcs' = vsink_sources(server, name)
    /\ pc' = "r_apps"
    /\ UNCHANGED <<server, listener_vars, ctx, todo, apps, old_srcs, old_apps, printed,
                   retained, drain_vars, closed, loaded, envLeft, call, signal>>

\* faulty variant: the queue is cleared once the pass is over
RefreshApps_clears ==
    /\ pc = "r_apps"
    /\ apps' = vsink_apps(server, name)
    /\ printed' = capturer_deltaprint(srcs, apps', old_srcs, old_apps)
    /\ retained' = [srcs |-> srcs, apps |-> apps']
    /\ events' = <<>>
    /\ pc' = "loop"
    /\ ctx' = "tick"
    /\ UNCHANGED <<server, lpc, _stop, inflight, todo, srcs, old_srcs, old_apps, drain_vars,
                   closed, loaded, envLeft, call, signal>>

\* 183-184: self.apps = set(self.vsink_apps(name)); capturer_deltaprint;
\* the loop (157) is entered or resumed
RefreshApps ==
    /\ pc = "r_apps"
    /\ apps' = vsink_apps(server, name)
    /\ printed' = capturer_deltaprint(srcs, apps', old_srcs, old_apps)
    /\ retained' = [srcs |-> srcs, apps |-> apps']
    /\ pc' = "loop"
    /\ ctx' = "tick"
    /\ UNCHANGED <<server, listener_vars, todo, srcs, old_srcs, old_apps, drain_vars,
                   closed, loaded, envLeft, call, signal>>

\* faulty variant: every tick goes on to a pass
LoopCheck_always ==
    /\ pc = "loop"
    /\ pc' = "clear"
    /\ UNCHANGED <<server, listener_vars, ctx, todo, refresh_vars, drain_vars, closed,
                   loaded, envLeft, call, signal>>

\* 158: if listener.events
LoopCheck ==
    /\ pc = "loop"
    /\ pc' = IF events # <<>> THEN "clear" ELSE "sleep"
    /\ UNCHANGED <<server, listener_vars, ctx, todo, refresh_vars, drain_vars, closed,
                   loaded, envLeft, call, signal>>

\* 159-160: listener.events.clear(); capturer_refresh is entered (179-181)
Clear ==
    /\ pc = "clear"
    /\ events' = <<>>
    /\ old_srcs' = srcs
    /\ old_apps' = apps
    /\ pc' = "cc_list"
    /\ UNCHANGED <<server, lpc, _stop, inflight, ctx, todo, srcs, apps, printed, retained,
                   drain_vars, closed, loaded, envLeft, call, signal>>

\* 162: time.sleep(delta)
Sleep ==
    /\ pc = "sleep"
    /\ pc' = "loop"
    /\ UNCHANGED <<server, listener_vars, ctx, todo, refresh_vars, drain_vars, closed,
                   loaded, envLeft, call, signal>>

\* ctrl-C: KeyboardInterrupt is raised in the main thread wherever it is.
\* The try of 156 handles it (163); before the try it leaves __init__.
KeyboardInterrupt ==
    /\ Starting \/ Running
    /\ signal' = TRUE
    /\ IF Starting THEN Propagate ELSE pc' = "stop" /\ UNCHANGED <<closed, inflight>>
    /\ Unwind
    /\ UNCHANGED <<server, lpc, events, _stop, srcs, apps, printed, retained, ret, bye,
                   destroyed, loaded, envLeft, call>>

\* 164-165: listener.stop()
Stop ==
    /\ pc = "stop"
    /\ _stop' = TRUE
    /\ pc' = "sr_apps"
    /\ UNCHANGED <<server, lpc, events, inflight, ctx, todo, refresh_vars, drain_vars,
                   closed, loaded, envLeft, call, signal>>

\* faulty variant: the teardown goes on whatever the apps
SafeRemoveApps_unchecked ==
    /\ pc = "sr_apps"
    /\ ret' = vsink_apps(server, name)
    /\ pc' = "dis_list"
    /\ UNCHANGED <<server, listener_vars, ctx, todo, refresh_vars, unloadq, bye, destroyed,
                   closed, loaded, envLeft, call, signal>>

\* 166, 116-117: vsink_safe_remove reads the apps
SafeRemoveApps ==
    /\ pc = "sr_apps"
    /\ ret' = vsink_apps(server, name)
    /\ pc' = IF ret' = {} THEN "dis_list" ELSE "report"
    /\ UNCHANGED <<server, listener_vars, ctx, todo, refresh_vars, unloadq, bye, destroyed,
                   closed, loaded, envLeft, call, signal>>

\* 76: vsink_disconnect reads the loopbacks
DisconnectList ==
    /\ pc = "dis_list"
    /\ unloadq' = vsink_disconnect_list(server, name)
    /\ pc' = IF unloadq' = <<>> THEN "rm_list" ELSE "dis_unload"
    /\ UNCHANGED <<server, listener_vars, ctx, todo, refresh_vars, ret, bye, destroyed,
                   closed, loaded, envLeft, call, signal>>

\* 78 and 86: self.module_unload(mod.index)
Unload(at, next) ==
    /\ pc = at
    /\ LET r == module_unload(server, Head(unloadq))
       IN  IF r.raised
           THEN /\ Propagate
                /\ Unwind
                /\ UNCHANGED <<server, loaded, destroyed>>
           ELSE /\ Command(r.g)
                /\ destroyed' = destroyed \cup {Head(unloadq)}
                /\ unloadq' = Tail(unloadq)
                /\ pc' = IF unloadq' = <<>> THEN next ELSE at
                /\ UNCHANGED <<closed, ctx, todo, old_srcs, old_apps>>
    /\ UNCHANGED <<lpc, events, _stop, srcs, apps, printed, retained, ret, bye, envLeft,
                   call, signal>>

DisconnectUnload == Unload("dis_unload", "rm_list")

\* 84-85: vsink_remove reads the null sinks
RemoveList ==
    /\ pc = "rm_list"
    /\ unloadq' = vsink_remove_list(server, name)
    /\ pc' = IF unloadq' = <<>> THEN "report" ELSE "rm_unload"
    /\ UNCHANGED <<server, listener_vars, ctx, todo, refresh_vars, ret, bye, destroyed,
                   closed, loaded, envLeft, call, signal>>

RemoveUnload == Unload("rm_unload", "report")

\* 167-173: the outcome is printed
Report ==
    /\ pc = "report"
    /\ bye' = IF ret = {} THEN "Finished" ELSE "Connection left alive"
    /\ pc' = "close"
    /\ UNCHANGED <<server, listener_vars, ctx, todo, refresh_vars, unloadq, ret, destroyed,
                   closed, loaded, envLeft, call, signal>>

\* 174-176: self.close(); print(bye)
Close ==
    /\ pc = "close"
    /\ closed' = TRUE
    /\ Disconnected(TRUE)
    /\ pc' = "stopped"
    /\ UNCHANGED <<server, lpc, events, _stop, ctx, todo, refresh_vars, drain_vars,
                   loaded, envLeft, call, signal>>

\* ------------------------------------------------------------- PulseEventsListener

\* 135-137: the thread subscribes and waits in event_listen
Subscribe ==
    /\ lpc = "starting"
    /\ lpc' = "listening"
    /\ UNCHANGED <<server, events, _stop, inflight, pc, ctx, todo, refresh_vars, drain_vars,
                   closed, loaded, envLeft, call, signal>>

\* 131-134, 138: the hook receives an event; PulseLoopStop ends event_listen
Hook ==
    /\ lpc = "listening"
    /\ inflight > 0
    /\ events' = IF Len(events) < MaxPending THEN Append(events, "event") ELSE events
    /\ IF _stop
       THEN lpc' = "done" /\ inflight' = 0
       ELSE lpc' = lpc /\ inflight' = inflight - 1
    /\ UNCHANGED <<server, _stop, pc, ctx, todo, refresh_vars, drain_vars,
                   closed, loaded, envLeft, call, signal>>

\* ------------------------------------------------------------- external changes

\* (changes that nothing of the program is left to observe are left out)
External(g) ==
    /\ envLeft > 0
    /\ pc \notin {"stopped", "crashed"} \/ lpc = "listening"
    /\ envLeft' = envLeft - 1
    /\ server' = g
    /\ Notify(TRUE)

\* a device is plugged in
SourceAppears ==
    /\ \E s \in HwSources \ server.sources :
            External([server EXCEPT !.sources = @ \cup {s}])
    /\ UNCHANGED <<lpc, events, _stop, pc, ctx, todo, refresh_vars, drain_vars,
                   closed, loaded, call, signal>>

\* A device is unplugged: its streams end.  The server unloads a loopback
\* whose source is gone, unless it moved the loopback's stream elsewhere.
SourceDisappears ==
    /\ \E s \in HwSources \cap server.sources, unloads \in BOOLEAN :
            LET g == without_sources(server, {s})
            IN  External(IF unloads
                         THEN [g EXCEPT !.modules = SelectSeq(@, LAMBDA m :
                                  ~(m.name = "module-loopback"
                                    /\ get(dict(findall(m.argument)), "source") = s))]
                         ELSE g)
    /\ UNCHANGED <<lpc, events, _stop, pc, ctx, todo, refresh_vars, drain_vars,
                   closed, loaded, call, signal>>

\* an application starts reading from a source
StreamStarts ==
    /\ \E a \in AppNames, s \in StreamSources \cap server.sources :
            /\ [name |-> a, source |-> index_of(s)] \notin server.source_outputs
            /\ External([server EXCEPT
                            !.source_outputs = @ \cup {[name |-> a, source |-> index_of(s)]}])
    /\ UNCHANGED <<lpc, events, _stop, pc, ctx, todo, refresh_vars, drain_vars,
                   closed, loaded, call, signal>>

\* an application stops reading
StreamEnds ==
    /\ \E c \in server.source_outputs :
            External([server EXCEPT !.source_outputs = @ \ {c}])
    /\ UNCHANGED <<lpc, events, _stop, pc, ctx, todo, refresh_vars, drain_vars,
                   closed, loaded, call, signal>>

Next ==
    \/ Connect \/ ConnectFails \/ VsinkAdd \/ ConnectList \/ ConnectAdd \/ StartListener
    \/ RefreshSources \/ RefreshApps \/ LoopCheck \/ Clear \/ Sleep
    \/ KeyboardInterrupt \/ Stop \/ SafeRemoveApps \/ DisconnectList \/ DisconnectUnload
    \/ RemoveList \/ RemoveUnload \/ Report \/ Close
    \/ Subscribe \/ Hook
    \/ SourceAppears \/ SourceDisappears \/ StreamStarts \/ StreamEnds

Spec == Init /\ [][Next]_vars

\* ------------------------------------------------------------- RouterSpec
\* A single owner calls the methods of MyPulse, one call after the other;
\* the graph changes externally between the calls.

capturer_vars == <<lpc, events, _stop, inflight, pc, ctx, todo, srcs, apps, old_srcs,
                   old_apps, printed, retained, unloadq, ret, bye, closed, destroyed, loaded,
                   signal>>

RouterInit ==
    /\ server \in InitGraphs \cup {Orphaned({"s1"})}
    /\ lpc = "none"
    /\ events = <<>>
    /\ _stop = FALSE
    /\ inflight = 0
    /\ pc = "router"
    /\ ctx = "start"
    /\ todo = <<>>
    /\ unloadq = <<>>
    /\ srcs = {}
    /\ apps = {}
    /\ old_srcs = {}
    /\ old_apps = {}
    /\ printed = NothingPrinted
    /\ ret = {}
    /\ bye = None
    /\ closed = FALSE
    /\ destroyed = {}
    /\ loaded = {}
    /\ retained = [srcs |-> {}, apps |-> {}]
    /\ envLeft = MaxEnv
    /\ call = NoCall
    /\ signal = FALSE

\* the sources the owner passes; the sinks are SinkNames for vsink_add,
\* vsink_disconnect and vsink_safe_remove, and name for the other calls
ArgSources == {"s1", monitor(name)}

\* the call op(args) with outcome r
Called(op, args, r) ==
    /\ pc = "router"
    /\ call.n < MaxCalls
    /\ call' = [op |-> op, args |-> args, raised |-> r.raised,
                handle |-> IF op \in {"vsink_add", "loopback_add"} /\ ~r.raised
                           THEN r.ret ELSE NotFound,
                apps |-> IF op \in {"vsink_apps", "vsink_safe_remove"} /\ ~r.raised
                         THEN r.ret ELSE {},
                n |-> call.n + 1, env |-> envLeft]
    /\ server' = r.g
    /\ UNCHANGED <<capturer_vars, envLeft>>

CallVsinkAdd == \E n \in SinkNames : Called("vsink_add", <<n>>, vsink_add(server, n))

CallLoopbackAdd ==
    \E s \in ArgSources :
        Called("loopback_add", <<s, name>>, loopback_add(server, s, name))

CallVsinkDisconnect ==
    \E n \in SinkNames : Called("vsink_disconnect", <<n>>, vsink_disconnect(server, n))

CallVsinkApps == Called("vsink_apps", <<name>>, Return(server, vsink_apps(server, name)))

CallVsinkSafeRemove ==
    \E n \in SinkNames : Called("vsink_safe_remove", <<n>>, vsink_safe_remove(server, n))

CallCapturerConnect ==
    Called("capturer_connect", <<name>>, capturer_connect(server, name))

RouterNext ==
    \/ CallVsinkAdd \/ CallLoopbackAdd \/ CallVsinkDisconnect
    \/ CallVsinkApps \/ CallVsinkSafeRemove \/ CallCapturerConnect
    \/ SourceAppears \/ SourceDisappears \/ StreamStarts \/ StreamEnds

RouterSpec == RouterInit /\ [][RouterNext]_vars

\* ------------------------------------------------------------- listings
\* What a listing of the graph g shows, module by module.

Args(m) == dict(findall(m.argument))
ModulesOf(g) == {g.modules[i] : i \in DOMAIN g.modules}
SinksNamed(g, n) ==
    {m \in ModulesOf(g) : m.name = "module-null-sink" /\ get(Args(m), "sink_name") = n}
RoutesInto(g, t) ==
    {m \in ModulesOf(g) : m.name = "module-loopback" /\ get(Args(m), "sink") = t}
RoutesOfPair(g, s, t) == {m \in RoutesInto(g, t) : get(Args(m), "source") = s}
\* the streams reading from the monitor of the sink n
Readers(g, n) ==
    {c \in g.source_outputs : monitor(n) \in g.sources /\ c.source = index_of(monitor(n))}
\* those that are not the level meter
ActiveReaders(g, n) == {c \in Readers(g, n) : c.name # PeakDetect}

\* the step is the call of op
IsCall(op) == call'.n = call.n + 1 /\ call'.op = op

\* ------------------------------------------------------------- claims

\* C1: vsink_safe_remove(n): with consumers of n at the call no module is
\* destroyed (the sink and its routes stay) and the consumers are returned;
\* with none, every route into n and every sink module named n is destroyed,
\* the empty set is returned and a listing shows no route into n and no sink n.
C1_SafeRemove ==
    [][IsCall("vsink_safe_remove") =>
        LET n == call'.args[1]
        IN  IF ActiveReaders(server, n) # {}
            THEN /\ server' = server
                 /\ call'.apps = {c.name : c \in ActiveReaders(server, n)}
                 /\ SinksNamed(server', n) # {}
            ELSE /\ call'.apps = {}
                 /\ ~call'.raised
                 /\ RoutesInto(server', n) = {}
                 /\ SinksNamed(server', n) = {}
                 /\ ModulesOf(server') =
                        ModulesOf(server) \ (RoutesInto(server, n) \cup SinksNamed(server, n))]_vars

\* C1 witness: the first call removed the Capturer's sink and its routes
C1_Witness ==
    /\ call.op = "vsink_safe_remove" /\ call.n = 1 /\ call.args = <<name>>
    /\ call.apps = {}
    /\ Len(server.modules) + 3 < server.next_index

\* C2: when a route into the sink or the sink itself is destroyed, no
\* consumer but the level meter reads from the sink's monitor.
C2_NeverDestroysInUse ==
    [][destroyed' # destroyed => ActiveReaders(server, name) = {}]_vars

\* C3: vsink_add(n) twice in a row with no external change returns the same
\* handle and leaves exactly one null sink named n; no reachable graph holds
\* two null sinks of one name.
C3_VsinkAddIdempotent ==
    /\ [](\A n \in SinkNames : Cardinality(SinksNamed(server, n)) <= 1)
    /\ [][(/\ IsCall("vsink_add") /\ call.op = "vsink_add"
           /\ call'.args = call.args /\ call.env = envLeft) =>
            /\ call'.handle = call.handle
            /\ server' = server
            /\ Cardinality(SinksNamed(server', call'.args[1])) = 1
            /\ \E m \in SinksNamed(server', call'.args[1]) : m.index = call'.handle]_vars

\* C3 witness: the second of two vsink_add(name) in a row
C3_Witness ==
    /\ call.op = "vsink_add" /\ call.n = 2 /\ call.args = <<name>>
    /\ call.env = envLeft
    /\ server.next_index = 2
    /\ Cardinality(SinksNamed(server, name)) = 1

\* C4: no (source, sink) pair ever has two loopback modules, whatever the
\* passes, the listener's events and the sources coming and going.
C4_OneRoutePerPair ==
    LET routes == SelectSeq(server.modules, LAMBDA m : m.name = "module-loopback")
        ends == [i \in DOMAIN routes |->
                    LET a == Args(routes[i]) IN <<get(a, "source"), get(a, "sink")>>]
    IN  \A i, j \in DOMAIN ends : ends[i] = ends[j] => i = j

\* C4 witness: a pass of the loop asked again for a route the process had
\* loaded before
C4_Witness ==
    /\ pc = "loop"
    /\ events = <<>>
    /\ \E m \in RoutesOfPair(server, "s1", name) : m.index \in loaded
    /\ printed = NothingPrinted

\* C5: the process never loads a route from the sink's own monitor into the
\* sink.
C5_NoSelfRoute ==
    \A i \in DOMAIN server.modules :
        server.modules[i].name = "module-loopback" =>
            LET a == Args(server.modules[i])
            IN  ~(get(a, "source") = monitor(name) /\ get(a, "sink") = name)

\* C5 witness: a pass has routed another source while the monitor was listed
C5_Witness ==
    /\ pc = "loop"
    /\ monitor(name) \in server.sources
    /\ \E m \in RoutesInto(server, name) : m.index \in loaded

\* C6: vsink_apps(n) returns exactly the names of the streams reading from
\* n's monitor that are not named 'Peak detect'; a sink only the level meter
\* reads from is removed by vsink_safe_remove.
C6_ConsumersOf ==
    /\ [][IsCall("vsink_apps") =>
            call'.apps = {c.name : c \in Readers(server, call'.args[1])} \ {PeakDetect}]_vars
    /\ [][(/\ IsCall("vsink_safe_remove")
           /\ \A c \in Readers(server, call'.args[1]) : c.name = PeakDetect) =>
            /\ call'.apps = {}
            /\ SinksNamed(server', call'.args[1]) = {}]_vars

\* C6 witness: the level meter and a recorder read from the monitor, and
\* vsink_apps returned the recorder alone
C6_Witness ==
    /\ call.op = "vsink_apps" /\ call.args = <<name>>
    /\ {c.name : c \in Readers(server, name)} = {"Recorder", PeakDetect}
    /\ call.apps = {"Recorder"}

\* C7: a capturer_connect(n) that no external change interrupts leaves every
\* source but n's monitor with exactly one route into n, keeps the modules
\* there were and loads one module per source that had no route.
C7_ConnectPass ==
    [][(IsCall("capturer_connect") /\ has_sink(server, call'.args[1])) =>
        LET n == call'.args[1]
            unrouted == {s \in server.sources \ {monitor(n)} : RoutesOfPair(server, s, n) = {}}
        IN  /\ ~call'.raised
            /\ \A s \in server'.sources \ {monitor(n)} :
                    Cardinality(RoutesOfPair(server', s, n)) = 1
            /\ RoutesOfPair(server', monitor(n), n) = RoutesOfPair(server, monitor(n), n)
            /\ ModulesOf(server) \subseteq ModulesOf(server')
            /\ Cardinality(ModulesOf(server') \ ModulesOf(server)) = Cardinality(unrouted)
            /\ \A m \in ModulesOf(server') \ ModulesOf(server) :
                    \E s \in unrouted : m \in RoutesOfPair(server', s, n)]_vars

\* C7 witness: on a fresh server with s1 and s2, vsink_add then
\* capturer_connect: the sink and the two routes
C7_Witness ==
    /\ call.op = "capturer_connect" /\ call.args = <<name>> /\ call.n = 2
    /\ server.sources = {"s1", "s2", monitor(name)}
    /\ Len(server.modules) = 3
    /\ RoutesOfPair(server, "s1", name) # {}
    /\ RoutesOfPair(server, "s2", name) # {}

\* a capturer_refresh ends
PassEnds == pc = "r_apps" /\ pc' = "loop"

\* C8: the deltas a pass reports are new minus previous and previous minus
\* new, for the sources and for the apps, previous being the snapshot the
\* pass before retained (empty for the first) and new the one this pass
\* retains.
C8_SnapshotDiff ==
    [][PassEnds =>
        /\ printed'.connected_srcs = srcs' \ retained.srcs
        /\ printed'.disconnected_srcs = retained.srcs \ srcs'
        /\ printed'.connected_apps = apps' \ retained.apps
        /\ printed'.disconnected_apps = retained.apps \ apps'
        /\ retained' = [srcs |-> srcs', apps |-> apps']]_vars

\* C8 witness: a pass reported a source gone and an app come
C8_Witness ==
    /\ pc = "loop"
    /\ printed.disconnected_srcs # {}
    /\ printed.connected_apps # {}

C10_InterruptDrains == [][(KeyboardInterrupt /\ pc # "init") => pc' = "stop"]_vars

\* the hook has run (nothing else takes an event from the connection)
Appended == inflight' < inflight

\* the queue is emptied
Cleared == events # <<>> /\ events' = <<>>

\* C11: no wake-up is lost between the listener's append and the loop's
\* check (158), clear (159) and pass (160), however they interleave, as long
\* as the loop is in RUNNING: an appended event is in the queue; with an
\* event queued the check goes on to the clear; the queue is emptied by the
\* clear alone, which enters a pass; that pass reads the graph (198) after
\* the clear and takes nothing from the queue, so that an event appended
\* once the queue was cleared stays queued for the next check.
C11_NoLostWakeup ==
    /\ [][Appended => (events' # <<>> /\ Len(events') >= Len(events))]_vars
    /\ [][(pc = "loop" /\ events # <<>> /\ pc' # "loop" /\ Running') => pc' = "clear"]_vars
    /\ [][(pc = "clear" /\ pc' # "clear" /\ Running') =>
            (pc' = "cc_list" /\ ctx' = "tick" /\ events' = <<>>)]_vars
    /\ [][Cleared => (pc = "clear" /\ pc' = "cc_list" /\ ctx' = "tick")]_vars
    /\ [][(pc = "cc_list" /\ ctx = "tick" /\ pc' # "cc_list" /\ Running') =>
            (todo' = source_list(server) /\ events' = events)]_vars
    /\ [][(Running /\ Running' /\ pc # "clear") => Len(events') >= Len(events)]_vars

\* C11 witness: an event was appended while a pass of the loop was under
\* way, its read of the graph done: it is queued when the pass ends
C11_Witness ==
    /\ pc = "r_apps" /\ ctx = "tick"
    /\ events # <<>>

\* C12: once listener.stop() was called, the listener's thread comes to its
\* end (_done is set), whether or not the teardown destroyed a module: when
\* the process has run to its end, the thread has ended, or has yet to
\* subscribe, or an event is on its way to its hook; it is never left
\* waiting in event_listen for an event that nothing of the process sends.
C12_ListenerTerminates ==
    (_stop /\ pc \in {"stopped", "crashed"}) =>
        (lpc \in {"done", "starting"} \/ inflight > 0)

\* C13: a command the server rejects during a pass of RUNNING does not end
\* the loop: the loop stays in RUNNING, the operation being left to a later
\* pass; the loop leaves RUNNING on an interrupt alone.
C13_FailureKeepsRunning == [][(Running /\ ~Running') => (signal' /\ pc' = "stop")]_vars

\* C17: the process destroys modules in DRAINING alone, by the unloads of
\* vsink_disconnect and vsink_remove, and only when the apps read at the
\* start of the teardown were none; in STARTING and RUNNING a step of the
\* process keeps every module there is, the routes whose source has gone
\* included.
C17_OnlyDrainingDestroys ==
    /\ []((Starting \/ Running) => destroyed = {})
    /\ [][destroyed' # destroyed =>
            /\ pc \in {"dis_unload", "rm_unload"}
            /\ ret = {}
            /\ _stop]_vars
    /\ [][((Starting \/ Running) /\ envLeft' = envLeft) =>
            ModulesOf(server) \subseteq ModulesOf(server')]_vars

\* C17 witness: a pass of the loop has gone through its connect pass and a
\* route the process loaded is still there although its source has gone
C17_Witness ==
    /\ pc = "r_srcs" /\ ctx = "tick"
    /\ events = <<>> /\ inflight = 0
    /\ \E m \in RoutesInto(server, name) :
            m.index \in loaded /\ get(Args(m), "source") \notin server.sources

\* C14: while the loop is in RUNNING, a source of the graph other than the
\* sink's own monitor gets its route: when the loop is idle, with no event
\* queued nor on its way and the listener subscribed (so that nothing but a
\* further change of the graph makes the loop run a pass), every source
\* present has a route into the sink.
C14_Convergence ==
    (pc \in {"loop", "sleep"} /\ events = <<>> /\ inflight = 0 /\ lpc = "listening") =>
        \A s \in server.sources \ {monitor(name)} : RoutesOfPair(server, s, name) # {}

\* the last connect pass of STARTING (155, 181) reads the source list
StartupRead ==
    /\ pc = "cc_list" /\ ctx = "baseline"
    /\ pc' \in {"cc_add", "r_srcs"}
    /\ todo' = source_list(server)

\* that read is done and the process goes on
AfterStartupRead ==
    \/ ctx = "baseline" /\ pc \in {"cc_add", "r_srcs", "r_apps"}
    \/ Running

\* C15: the listener is subscribed when the last connect pass of STARTING
\* reads the source list, so that every change of the graph after that read
\* is sent to the listener, to be appended to the event queue.
C15_StartupOrdering ==
    /\ [][StartupRead => lpc = "listening"]_vars
    /\ [][(envLeft' < envLeft /\ AfterStartupRead) => inflight' > 0]_vars

\* C16: when no sink named n exists (no source n.monitor), vsink_apps(n)
\* returns the empty set without raising, and vsink_safe_remove(n) returns
\* the empty set and destroys no module at all: the graph is as it was, the
\* loopbacks recording n as their sink included.
C16_AbsentSinkNoOp ==
    /\ [][(IsCall("vsink_apps") /\ ~has_sink(server, call'.args[1])) =>
            (~call'.raised /\ call'.apps = {} /\ server' = server)]_vars
    /\ [][(IsCall("vsink_safe_remove") /\ ~has_sink(server, call'.args[1])) =>
            (~call'.raised /\ call'.apps = {} /\ server' = server)]_vars

\* the modules of g that are neither routes into n nor, with sinks set, null
\* sinks named n, in the order of the module list
Unrelated(g, n, sinks) ==
    SelectSeq(g.modules, LAMBDA m :
        m \notin RoutesInto(g, n) /\ (sinks => m \notin SinksNamed(g, n)))

\* C18: vsink_disconnect(n) unloads the routes into n and nothing else: the
\* routes into another sink, the null sinks (n's included) and the null
\* sources are afterwards as before, index and argument, and so are the
\* sources and the streams; vsink_safe_remove(n) likewise keeps every module
\* that is neither a route into n nor a null sink named n.
C18_DisconnectFrame ==
    /\ [][IsCall("vsink_disconnect") =>
            LET n == call'.args[1]
            IN  /\ ~call'.raised
                /\ server'.modules = Unrelated(server, n, FALSE)
                /\ server'.sources = server.sources
                /\ server'.source_outputs = server.source_outputs]_vars
    /\ [][IsCall("vsink_safe_remove") =>
            LET n == call'.args[1]
            IN  /\ Unrelated(server', n, TRUE) = Unrelated(server, n, TRUE)
                /\ ModulesOf(server') \subseteq ModulesOf(server)
                /\ server'.sources \ {monitor(n)} = server.sources \ {monitor(n)}]_vars

\* C18 witness: vsink_disconnect(caphVSink) has unloaded routes, and the other
\* owner's sink, the route into it and the null source are there
C18_Witness ==
    /\ call.op = "vsink_disconnect" /\ call.args = <<name>> /\ call.n = 1
    /\ Len(server.modules) + 3 < server.next_index
    /\ RoutesInto(server, other) # {}
    /\ SinksNamed(server, other) # {}
    /\ \E m \in ModulesOf(server) : m.name = "module-null-source"

====
